---- MODULE Spec2Model ----
(***************************************************************************)
(* A state-machine model of the CHIP-8 interpreter of nagyf/chip8:         *)
(* cpu.rs (Cpu, read_word, execute_cycle, process_opcode), ram.rs (Ram),   *)
(* chip8.rs (Chip8Machine::run), display.rs (Display, FONT) and            *)
(* vga_13h_buffer.rs (Writer).  keyboard.rs and color.rs are not part of   *)
(* the sources at hand; the few definitions that stand for them follow     *)
(* the specification and are marked as such where they are defined.        *)
(***************************************************************************)
EXTENDS Integers, Sequences, FiniteSets, TLC

VARIABLES
    memory,           \* Ram.memory: [u8; 4096], the bytes that are not 0
    i,                \* Cpu.i: u16
    pc,               \* Cpu.pc: u16
    v,                \* Cpu.v: [u8; 16]
    stack,            \* Cpu.stack: [u16; 16]
    sp,               \* Cpu.sp: u8
    dt,               \* Cpu.dt: u8
    st,               \* Cpu.st: u8
    vga,              \* Buffer.data, the bytes that are not 0 (see read_byte)
    keys,             \* Keyboard: the set of keys that are down
    status,           \* "running", "awaiting_key" or "panicked"
    fault,            \* why the program panicked, "none" while it has not
    wait_x,           \* the register an outstanding Fx0A will load
    overflow_checks,  \* rustc's overflow checks: "unobserved", "on" or "off"
    cycles,           \* history: number of execute_cycle calls made
    lastop,           \* history: the opcode of the last cycle, -1 before it
    calls,            \* history: the 2nnn calls not yet returned from
    dlog,             \* history: the Display calls made, newest last
    key_events        \* history: number of key presses and releases so far

vars == <<memory, i, pc, v, stack, sp, dt, st, vga, keys, status, fault,
          wait_x, overflow_checks, cycles, lastop, calls, dlog, key_events>>

----------------------------------------------------------------------------
(* Bounds of the model.                                                    *)

\* execute_cycle is called at most this many times in a run
MaxCycles == 20
\* at most this many key presses and releases happen in a run
MaxKeyEvents == 2
\* the longest chain of consecutive 2nnn instructions among the ROMs
MaxCallChain == 17
\* at most this many Display calls are made in a run of SpecDisplay
MaxDisplayOps == 3

----------------------------------------------------------------------------
(* Program constants.                                                      *)

MEMORY_SIZE == 4096
STACK_SIZE == 16
PROGRAM_START == 512
FONT_SIZE == 80
WIDTH == 64
HEIGHT == 32
MULTIPLIER == 5
BUFFER_WIDTH == 320
BUFFER_HEIGHT == 200

\* color.rs is not among the sources: the two colours display.rs and
\* chip8.rs use, as bytes of the VGA palette.
Black == 0
White == 15

FONT ==
    << 240, 144, 144, 144, 240,   32,  96,  32,  32, 112,
       240,  16, 240, 128, 240,  240,  16, 240,  16, 240,
       144, 144, 240,  16,  16,  240, 128, 240,  16, 240,
       240, 128, 240, 144, 240,  240,  16,  32,  64,  64,
       240, 144, 240, 144, 240,  240, 144, 240,  16, 240,
       240, 144, 240, 144, 144,  224, 144, 224, 144, 224,
       240, 128, 128, 128, 240,  224, 144, 144, 144, 224,
       240, 128, 240, 128, 240,  240, 128, 240, 128, 128 >>

----------------------------------------------------------------------------
(* Fixed-width arithmetic.                                                 *)

U8 == 256
U16 == 65536

RECURSIVE BitOp(_, _, _, _)
\* the bitwise combination of a and b over n bits; op is "and", "or", "xor"
BitOp(op, a, b, n) ==
    IF n = 0 THEN 0
    ELSE LET x == a % 2
             y == b % 2
             r == CASE op = "and" -> IF x = 1 /\ y = 1 THEN 1 ELSE 0
                    [] op = "or"  -> IF x = 1 \/ y = 1 THEN 1 ELSE 0
                    [] op = "xor" -> IF x # y THEN 1 ELSE 0
         IN  r + 2 * BitOp(op, a \div 2, b \div 2, n - 1)

wrapping_add(a, b) == (a + b) % U8
wrapping_sub(a, b) == (a - b + U8) % U8

\* the opcode's fields: (opcode & 0x0F00) >> 8, (opcode & 0x00F0) >> 4, ...
OpX(opcode) == (opcode \div 256) % 16
OpY(opcode) == (opcode \div 16) % 16
OpN(opcode) == opcode % 16
OpKK(opcode) == opcode % 256
OpNNN(opcode) == opcode % 4096

----------------------------------------------------------------------------
(* vga_13h_buffer.rs: Writer over Buffer.data.  The buffer is kept as the  *)
(* function from the coordinates <<x, y>> whose byte is not 0 to that      *)
(* byte; every other byte of the 320 x 200 array is 0.                     *)

\* an index inside data[y as usize][x as usize]; outside it the access panics
InBuffer(x, y) == x >= 0 /\ x < BUFFER_WIDTH /\ y >= 0 /\ y < BUFFER_HEIGHT

read_byte(buf, x, y) == IF <<x, y>> \in DOMAIN buf THEN buf[<<x, y>>] ELSE 0

write_byte(buf, x, y, byte) ==
    IF byte = 0
    THEN [c \in DOMAIN buf \ {<<x, y>>} |-> buf[c]]
    ELSE [c \in DOMAIN buf \cup {<<x, y>>} |->
             IF c = <<x, y>> THEN byte ELSE buf[c]]

\* xor_byte with the byte OR-ed into the buffer instead of XOR-ed
xor_byte_ors(buf, x, y, byte) ==
    LET old_value == read_byte(buf, x, y)
    IN  [written |-> BitOp("or", old_value, byte, 8),
         ret |-> old_value # 0,
         ok  |-> InBuffer(x, y)]

\* Writer::xor_byte: old_value ^ byte is written to data[y][x] (the field
\* `written`; the caller's buffer takes it), the result is old_value != 0
xor_byte(buf, x, y, byte) ==
    LET old_value == read_byte(buf, x, y)
    IN  [written |-> BitOp("xor", old_value, byte, 8),
         ret |-> old_value # 0,
         ok  |-> InBuffer(x, y)]

----------------------------------------------------------------------------
(* display.rs: Display.  A Display value of the model is the record        *)
(* [buf, ok, log]: the VGA buffer it writes through WRITER, whether every  *)
(* buffer access so far was inside the buffer, and the history of calls.   *)

\* Display.color, as Chip8Machine::new constructs it
color == White

\* the physical cells of logical pixel (x, y): (x * M + i, y * M + j)
PixelCells(x, y) ==
    {<<x * MULTIPLIER + a, y * MULTIPLIER + b>> :
        a \in 0..(MULTIPLIER - 1), b \in 0..(MULTIPLIER - 1)}

\* Display::set_pixel: for i, for j: writer.write_byte(x * M + i, y * M + j,
\* color); the 25 cells are distinct
set_pixel(buf, x, y, c) ==
    LET cells == PixelCells(x, y)
        byte(cell) == IF cell \in cells
                      THEN read_byte(write_byte(buf, cell[1], cell[2], c),
                                     cell[1], cell[2])
                      ELSE buf[cell]
    IN  [cell \in {d \in DOMAIN buf \cup cells : byte(d) # 0} |-> byte(cell)]

\* xor_pixel with the last row of the block left out (for j in
\* 0..MULTIPLIER - 1)
xor_pixel_skips_last_row(buf, x, y, c) ==
    LET cells == {cell \in PixelCells(x, y) :
                     cell[2] < y * MULTIPLIER + MULTIPLIER - 1}
        each == [cell \in cells |-> xor_byte(buf, cell[1], cell[2], c)]
        byte(cell) == IF cell \in cells THEN each[cell].written
                      ELSE buf[cell]
    IN  [buf |-> [cell \in {d \in DOMAIN buf \cup cells : byte(d) # 0} |->
                     byte(cell)],
         ret |-> \E cell \in cells : each[cell].ret,
         ok  |-> \A cell \in cells : each[cell].ok]

\* Display::xor_pixel: for i, for j: collision |= writer.xor_byte(x * M + i,
\* y * M + j, color).  The 25 cells are distinct, so each xor_byte reads
\* the byte the buffer held at the call and is the only one to write it.
xor_pixel(buf, x, y, c) ==
    LET cells == PixelCells(x, y)
        each == [cell \in cells |-> xor_byte(buf, cell[1], cell[2], c)]
        byte(cell) == IF cell \in cells THEN each[cell].written
                      ELSE buf[cell]
    IN  [buf |-> [cell \in {d \in DOMAIN buf \cup cells : byte(d) # 0} |->
                     byte(cell)],
         ret |-> \E cell \in cells : each[cell].ret,
         ok  |-> \A cell \in cells : each[cell].ok]

\* (row_bytes >> (7 - column)) & 0x01
SpriteBit(row_bytes, column) == (row_bytes \div (2 ^ (7 - column))) % 2

RECURSIVE draw_loop(_, _, _, _, _, _, _)
\* for row in 0..sprite.len(), for column in 0..8; k = row * 8 + column
draw_loop(buf, collision, ok, x, y, sprite, k) ==
    IF k = 8 * Len(sprite)
    THEN [buf |-> buf, ret |-> collision, ok |-> ok]
    ELSE LET row == k \div 8
             column == k % 8
         IN  IF SpriteBit(sprite[row + 1], column) = 1
             THEN LET real_x == (x + column) % WIDTH
                      real_y == (y + row) % HEIGHT
                      r == xor_pixel(buf, real_x, real_y, color)
                  IN  draw_loop(r.buf, collision \/ r.ret, ok /\ r.ok,
                                x, y, sprite, k + 1)
             ELSE draw_loop(buf, collision, ok, x, y, sprite, k + 1)

\* ClearWrites with the last column left out (for i in 0..WIDTH - 1)
ClearWrites_skips_last_column(c) ==
    /\ c[1] \div MULTIPLIER \in 0..(WIDTH - 2)
    /\ c[2] \div MULTIPLIER \in 0..(HEIGHT - 1)

\* the cells clear() writes: set_pixel(i, j, ..) for i < WIDTH, j < HEIGHT
ClearWrites(c) ==
    /\ c[1] \div MULTIPLIER \in 0..(WIDTH - 1)
    /\ c[2] \div MULTIPLIER \in 0..(HEIGHT - 1)

\* the history of Display calls: one entry per call, with the buffer it found
LogAppend(log, e) == Append(log, e)

\* Display::clear: every cell of every logical pixel is written Black
Display_clear(d) ==
    [buf |-> [c \in {c \in DOMAIN d.buf : ~ClearWrites(c)} |-> d.buf[c]],
     ok  |-> d.ok /\ InBuffer(WIDTH * MULTIPLIER - 1, HEIGHT * MULTIPLIER - 1),
     log |-> LogAppend(d.log, [op |-> "clear", x |-> 0, y |-> 0,
                               sprite |-> <<>>, ret |-> FALSE,
                               before |-> d.buf])]

\* Display::draw: the Display after the call (its log holds the result)
Display_draw(d, x, y, sprite) ==
    LET r == draw_loop(d.buf, FALSE, TRUE, x, y, sprite, 0)
    IN  [buf |-> r.buf,
         ok  |-> d.ok /\ r.ok,
         log |-> LogAppend(d.log, [op |-> "draw", x |-> x, y |-> y,
                                   sprite |-> sprite, ret |-> r.ret,
                                   before |-> d.buf])]

----------------------------------------------------------------------------
(* keyboard.rs is not among the sources; from the specification: the       *)
(* Keyboard holds the up/down state of the 16 keys, is_pressed and         *)
(* is_released are pure queries, and wait_key returns the next key that    *)
(* becomes pressed.                                                        *)

is_pressed(ks, key) == key \in ks
is_released(ks, key) == key \notin ks

----------------------------------------------------------------------------
(* cpu.rs: the machine a cycle works on, as one record.                    *)

Machine ==
    [memory |-> memory, i |-> i, pc |-> pc, v |-> v, stack |-> stack,
     sp |-> sp, dt |-> dt, st |-> st,
     display |-> [buf |-> vga, ok |-> TRUE, log |-> dlog],
     keys |-> keys, status |-> status, fault |-> fault, wait_x |-> wait_x,
     overflow_checks |-> overflow_checks]

\* a panic: the fields written before it keep their new values
Panic(m, why) == [m EXCEPT !.status = "panicked", !.fault = why]

\* an arithmetic overflow of +=, -= or +: a panic in a build with overflow
\* checks, the wrapped value (the record `wrapped`) in a build without
Overflow(m, chk, wrapped) ==
    IF chk
    THEN Panic([m EXCEPT !.overflow_checks = "on"], "arithmetic_overflow")
    ELSE [wrapped EXCEPT !.overflow_checks = "off"]

\* memory[a] for a < 4096: the memory is kept as the function from the
\* addresses whose byte is not 0 to that byte
MemGet(mem, a) == IF a \in DOMAIN mem THEN mem[a] ELSE 0

\* memory[a] = byte for a < 4096
MemSet(mem, a, byte) ==
    IF byte = 0
    THEN [b \in DOMAIN mem \ {a} |-> mem[b]]
    ELSE [b \in DOMAIN mem \cup {a} |-> IF b = a THEN byte ELSE mem[b]]

\* (memory[i] as u16) << 8 | (memory[i + 1] as u16)
read_word(mem, index) == MemGet(mem, index) * 256 + MemGet(mem, index + 1)

\* the arm of process_opcode's match that takes the opcode: the first
\* pattern, in the order written, whose range holds it
Decode(opcode) ==
    IF opcode = \h00E0 THEN "CLS"
    ELSE IF opcode = \h00EE THEN "RET"
    ELSE IF opcode \in \h1000..\h1FFF THEN "JP"
    ELSE IF opcode \in \h2000..\h2FFF THEN "CALL"
    ELSE IF opcode \in \h3000..\h3FFF THEN "SE_Vx_byte"
    ELSE IF opcode \in \h4000..\h4FFF THEN "SNE_Vx_byte"
    ELSE IF opcode \in \h5000..\h5FFF THEN "SE_Vx_Vy"
    ELSE IF opcode \in \h6000..\h6FFF THEN "LD_Vx_byte"
    ELSE IF opcode \in \h7000..\h7FFF THEN "ADD_Vx_byte"
    ELSE IF opcode \in \h8000..\h8FF0 THEN "LD_Vx_Vy"
    ELSE IF opcode \in \h8001..\h8FF1 THEN "OR_Vx_Vy"
    ELSE IF opcode \in \h8002..\h8FF2 THEN "AND_Vx_Vy"
    ELSE IF opcode \in \h8003..\h8FF3 THEN "XOR_Vx_Vy"
    ELSE IF opcode \in \h8004..\h8FF4 THEN "ADD_Vx_Vy"
    ELSE IF opcode \in \h8005..\h8FF5 THEN "SUB_Vx_Vy"
    ELSE IF opcode \in \h8006..\h8FF6 THEN "SHR_Vx"
    ELSE IF opcode \in \h8007..\h8FF7 THEN "SUBN_Vx_Vy"
    ELSE IF opcode \in \h800E..\h8FFE THEN "SHL_Vx"
    ELSE IF opcode \in \h9000..\h9FF0 THEN "SNE_Vx_Vy"
    ELSE IF opcode \in \hA000..\hAFFF THEN "LD_I_addr"
    ELSE IF opcode \in \hB000..\hBFFF THEN "JP_V0_addr"
    ELSE IF opcode \in \hC000..\hCFFF THEN "RND_Vx_byte"
    ELSE IF opcode \in \hD000..\hDFFF THEN "DRW_Vx_Vy_n"
    ELSE IF opcode \in \hE09E..\hEF9E THEN "SKP_Vx"
    ELSE IF opcode \in \hE0A1..\hEFA1 THEN "SKNP_Vx"
    ELSE IF opcode \in \hF007..\hFF07 THEN "LD_Vx_DT"
    ELSE IF opcode \in \hF00A..\hFF0A THEN "LD_Vx_K"
    ELSE IF opcode \in \hF015..\hFF15 THEN "LD_DT_Vx"
    ELSE IF opcode \in \hF018..\hFF18 THEN "LD_ST_Vx"
    ELSE IF opcode \in \hF01E..\hFF1E THEN "ADD_I_Vx"
    ELSE IF opcode \in \hF029..\hFF29 THEN "LD_F_Vx"
    ELSE IF opcode \in \hF033..\hFF33 THEN "LD_B_Vx"
    ELSE IF opcode \in \hF055..\hFF55 THEN "LD_I_Vx"
    ELSE IF opcode \in \hF065..\hFF65 THEN "LD_Vx_I"
    ELSE "unknown"

\* 00E0 - CLS
op_CLS(m) ==
    LET d == Display_clear(m.display)
    IN  IF d.ok THEN [m EXCEPT !.display = d]
        ELSE Panic(m, "index_out_of_bounds")

\* 00EE - RET: self.pc = self.stack[self.sp as usize]; self.sp -= 1
op_RET(m, chk) ==
    IF m.sp >= STACK_SIZE THEN Panic(m, "index_out_of_bounds")
    ELSE LET m1 == [m EXCEPT !.pc = m.stack[m.sp]]
         IN  IF m.sp = 0
             THEN Overflow(m1, chk, [m1 EXCEPT !.sp = U8 - 1])
             ELSE [m1 EXCEPT !.sp = m.sp - 1]

\* op_JP with the target advanced past, as after a fetch
op_JP_auto_advances(m, opcode) == [m EXCEPT !.pc = OpNNN(opcode) + 2]

\* 1nnn - JP addr
op_JP(m, opcode) == [m EXCEPT !.pc = OpNNN(opcode)]

\* CallPush with the address of the 2nnn itself pushed instead of the
\* address after it
CallPush_pushes_call_address(m, opcode, new_sp) ==
    LET m1 == [m EXCEPT !.sp = new_sp]
    IN  IF new_sp >= STACK_SIZE THEN Panic(m1, "index_out_of_bounds")
        ELSE [m1 EXCEPT !.stack[new_sp] = m.pc - 2, !.pc = OpNNN(opcode)]

\* the writes of 2nnn once self.sp += 1 has given sp the value new_sp
CallPush(m, opcode, new_sp) ==
    LET m1 == [m EXCEPT !.sp = new_sp]
    IN  IF new_sp >= STACK_SIZE THEN Panic(m1, "index_out_of_bounds")
        ELSE [m1 EXCEPT !.stack[new_sp] = m.pc, !.pc = OpNNN(opcode)]

\* 2nnn - CALL addr: self.sp += 1; self.stack[self.sp as usize] = self.pc;
\* self.pc = opcode & 0x0FFF
op_CALL(m, opcode, chk) ==
    IF m.sp = U8 - 1
    THEN Overflow(m, chk, CallPush(m, opcode, 0))
    ELSE CallPush(m, opcode, m.sp + 1)

\* 3xkk - SE Vx, byte
op_SE_Vx_byte(m, opcode) ==
    IF m.v[OpX(opcode)] = OpKK(opcode) THEN [m EXCEPT !.pc = m.pc + 2] ELSE m

\* 4xkk - SNE Vx, byte
op_SNE_Vx_byte(m, opcode) ==
    IF m.v[OpX(opcode)] # OpKK(opcode) THEN [m EXCEPT !.pc = m.pc + 2] ELSE m

\* 5xy0 - SE Vx, Vy
op_SE_Vx_Vy(m, opcode) ==
    IF m.v[OpX(opcode)] = m.v[OpY(opcode)]
    THEN [m EXCEPT !.pc = m.pc + 2] ELSE m

\* 6xkk - LD Vx, byte
op_LD_Vx_byte(m, opcode) == [m EXCEPT !.v[OpX(opcode)] = OpKK(opcode)]

\* 7xkk - ADD Vx, byte
op_ADD_Vx_byte(m, opcode) ==
    [m EXCEPT !.v[OpX(opcode)] = wrapping_add(m.v[OpX(opcode)], OpKK(opcode))]

\* 8xy0 - LD Vx, Vy
op_LD_Vx_Vy(m, opcode) == [m EXCEPT !.v[OpX(opcode)] = m.v[OpY(opcode)]]

\* 8xy1 - OR Vx, Vy
op_OR_Vx_Vy(m, opcode) ==
    [m EXCEPT !.v[OpX(opcode)] =
                  BitOp("or", m.v[OpX(opcode)], m.v[OpY(opcode)], 8)]

\* 8xy2 - AND Vx, Vy
op_AND_Vx_Vy(m, opcode) ==
    [m EXCEPT !.v[OpX(opcode)] =
                  BitOp("and", m.v[OpX(opcode)], m.v[OpY(opcode)], 8)]

\* 8xy3 - XOR Vx, Vy
op_XOR_Vx_Vy(m, opcode) ==
    [m EXCEPT !.v[OpX(opcode)] =
                  BitOp("xor", m.v[OpX(opcode)], m.v[OpY(opcode)], 8)]

\* 8xy4 - ADD Vx, Vy: VF is written first, then Vx from the registers as
\* they then are
op_ADD_Vx_Vy(m, opcode) ==
    LET x == OpX(opcode)
        y == OpY(opcode)
        result == m.v[x] + m.v[y]
        v1 == [m.v EXCEPT ![15] = IF result > 255 THEN 1 ELSE 0]
    IN  [m EXCEPT !.v = [v1 EXCEPT ![x] = wrapping_add(v1[x], v1[y])]]

\* 8xy5 - SUB Vx, Vy
op_SUB_Vx_Vy(m, opcode) ==
    LET x == OpX(opcode)
        xx == m.v[x]
        yy == m.v[OpY(opcode)]
        v1 == [m.v EXCEPT ![15] = IF xx > yy THEN 1 ELSE 0]
    IN  [m EXCEPT !.v = [v1 EXCEPT ![x] = wrapping_sub(xx, yy)]]

\* 8xy6 - SHR Vx
op_SHR_Vx(m, opcode) ==
    LET x == OpX(opcode)
        v1 == [m.v EXCEPT ![15] = IF m.v[x] % 2 > 0 THEN 1 ELSE 0]
    IN  [m EXCEPT !.v = [v1 EXCEPT ![x] = v1[x] \div 2]]

\* 8xy7 - SUBN Vx, Vy
op_SUBN_Vx_Vy(m, opcode) ==
    LET x == OpX(opcode)
        xx == m.v[x]
        yy == m.v[OpY(opcode)]
        v1 == [m.v EXCEPT ![15] = IF yy > xx THEN 1 ELSE 0]
    IN  [m EXCEPT !.v = [v1 EXCEPT ![x] = wrapping_sub(yy, xx)]]

\* 8xyE - SHL Vx
op_SHL_Vx(m, opcode) ==
    LET x == OpX(opcode)
        v1 == [m.v EXCEPT ![15] = IF m.v[x] \div 128 > 0 THEN 1 ELSE 0]
    IN  [m EXCEPT !.v = [v1 EXCEPT ![x] = (v1[x] * 2) % U8]]

\* 9xy0 - SNE Vx, Vy
op_SNE_Vx_Vy(m, opcode) ==
    IF m.v[OpX(opcode)] # m.v[OpY(opcode)]
    THEN [m EXCEPT !.pc = m.pc + 2] ELSE m

\* Annn - LD I, addr
op_LD_I_addr(m, opcode) == [m EXCEPT !.i = OpNNN(opcode)]

\* Bnnn - JP V0, addr: (self.v[0] as u16).wrapping_add(delta)
op_JP_V0_addr(m, opcode) == [m EXCEPT !.pc = (m.v[0] + OpNNN(opcode)) % U16]

\* Cxkk - RND Vx, byte; random is gen_range(0, 255)'s result
op_RND_Vx_byte(m, opcode, random) ==
    [m EXCEPT !.v[OpX(opcode)] = BitOp("and", OpKK(opcode), random, 8)]

\* Dxyn - DRW Vx, Vy, nibble: the bytes memory[from..to] are drawn at the
\* coordinates x and y taken from the opcode; draw's result is dropped
op_DRW_Vx_Vy_n(m, opcode, chk) ==
    LET x == OpX(opcode)
        y == OpY(opcode)
        n == OpN(opcode)
        from == m.i
        to == m.i + n
        bytes == [k \in 1..n |-> MemGet(m.memory, from + k - 1)]
        d == Display_draw(m.display, x, y, bytes)
    IN  IF to >= U16
        THEN \* to wraps below from, and the slice from..to panics
             Overflow(m, chk, Panic(m, "index_out_of_bounds"))
        ELSE IF to > MEMORY_SIZE THEN Panic(m, "index_out_of_bounds")
        ELSE IF d.ok THEN [m EXCEPT !.display = d]
        ELSE Panic(m, "index_out_of_bounds")

\* Ex9E - SKP Vx
op_SKP_Vx(m, opcode) ==
    IF is_pressed(m.keys, m.v[OpX(opcode)])
    THEN [m EXCEPT !.pc = m.pc + 2] ELSE m

\* ExA1 - SKNP Vx
op_SKNP_Vx(m, opcode) ==
    IF is_released(m.keys, m.v[OpX(opcode)])
    THEN [m EXCEPT !.pc = m.pc + 2] ELSE m

\* Fx07 - LD Vx, DT
op_LD_Vx_DT(m, opcode) == [m EXCEPT !.v[OpX(opcode)] = m.dt]

\* Fx0A - LD Vx, K: the cycle is inside keyboard.wait_key() until a key is
\* pressed (KeyPress below returns from it and stores the key)
op_LD_Vx_K(m, opcode) ==
    [m EXCEPT !.status = "awaiting_key", !.wait_x = OpX(opcode)]

\* Fx15 - LD DT, Vx
op_LD_DT_Vx(m, opcode) == [m EXCEPT !.dt = m.v[OpX(opcode)]]

\* Fx18 - LD ST, Vx
op_LD_ST_Vx(m, opcode) == [m EXCEPT !.st = m.v[OpX(opcode)]]

\* Fx1E - ADD I, Vx: self.i += self.v[x] as u16
op_ADD_I_Vx(m, opcode, chk) ==
    LET sum == m.i + m.v[OpX(opcode)]
    IN  IF sum >= U16
        THEN Overflow(m, chk, [m EXCEPT !.i = sum % U16])
        ELSE [m EXCEPT !.i = sum]

\* Fx29 - LD F, Vx: the arm is empty (TODO)
op_LD_F_Vx(m, opcode) == m

\* Fx33 - LD B, Vx: three indexed writes, each of which may panic
op_LD_B_Vx(m, opcode) ==
    LET a == m.i
        num == m.v[OpX(opcode)]
        m1 == [m EXCEPT !.memory = MemSet(m.memory, a, num \div 100)]
        m2 == [m1 EXCEPT !.memory =
                             MemSet(m1.memory, a + 1, (num % 100) \div 10)]
        m3 == [m2 EXCEPT !.memory =
                             MemSet(m2.memory, a + 2, (num % 100) % 10)]
    IN  IF a >= MEMORY_SIZE THEN Panic(m, "index_out_of_bounds")
        ELSE IF a + 1 >= MEMORY_SIZE THEN Panic(m1, "index_out_of_bounds")
        ELSE IF a + 2 >= MEMORY_SIZE THEN Panic(m2, "index_out_of_bounds")
        ELSE m3

\* Fx55 - LD [I], Vx: for i in 0..x { memory[self.i + i] = self.v[i] }
op_LD_I_Vx(m, opcode) ==
    LET x == OpX(opcode)
        written == {a \in 0..(MEMORY_SIZE - 1) : a >= m.i /\ a < m.i + x}
        byte(a) == IF a \in written THEN m.v[a - m.i] ELSE m.memory[a]
        stored == [m EXCEPT !.memory =
                      [a \in {b \in DOMAIN m.memory \cup written :
                                 byte(b) # 0} |-> byte(a)]]
    IN  IF x > 0 /\ m.i + x - 1 >= MEMORY_SIZE
        THEN Panic(stored, "index_out_of_bounds")
        ELSE stored

\* Fx65 - LD Vx, [I]: for i in 0..x { self.v[i] = memory[self.i + i] }
op_LD_Vx_I(m, opcode) ==
    LET x == OpX(opcode)
        loaded == [m EXCEPT !.v =
                      [k \in 0..15 |->
                          IF k < x /\ m.i + k < MEMORY_SIZE
                          THEN MemGet(m.memory, m.i + k) ELSE m.v[k]]]
    IN  IF x > 0 /\ m.i + x - 1 >= MEMORY_SIZE
        THEN Panic(loaded, "index_out_of_bounds")
        ELSE loaded

\* _ => panic!("Unknown opcode: {:x}", opcode)
op_unknown(m, opcode) == Panic(m, "unknown_opcode")

\* process_opcode: the arm Decode selects, run on the machine m whose pc
\* execute_cycle has already advanced
process_opcode(m, opcode, random, chk) ==
    LET arm == Decode(opcode)
    IN  CASE arm = "CLS"         -> op_CLS(m)
          [] arm = "RET"         -> op_RET(m, chk)
          [] arm = "JP"          -> op_JP(m, opcode)
          [] arm = "CALL"        -> op_CALL(m, opcode, chk)
          [] arm = "SE_Vx_byte"  -> op_SE_Vx_byte(m, opcode)
          [] arm = "SNE_Vx_byte" -> op_SNE_Vx_byte(m, opcode)
          [] arm = "SE_Vx_Vy"    -> op_SE_Vx_Vy(m, opcode)
          [] arm = "LD_Vx_byte"  -> op_LD_Vx_byte(m, opcode)
          [] arm = "ADD_Vx_byte" -> op_ADD_Vx_byte(m, opcode)
          [] arm = "LD_Vx_Vy"    -> op_LD_Vx_Vy(m, opcode)
          [] arm = "OR_Vx_Vy"    -> op_OR_Vx_Vy(m, opcode)
          [] arm = "AND_Vx_Vy"   -> op_AND_Vx_Vy(m, opcode)
          [] arm = "XOR_Vx_Vy"   -> op_XOR_Vx_Vy(m, opcode)
          [] arm = "ADD_Vx_Vy"   -> op_ADD_Vx_Vy(m, opcode)
          [] arm = "SUB_Vx_Vy"   -> op_SUB_Vx_Vy(m, opcode)
          [] arm = "SHR_Vx"      -> op_SHR_Vx(m, opcode)
          [] arm = "SUBN_Vx_Vy"  -> op_SUBN_Vx_Vy(m, opcode)
          [] arm = "SHL_Vx"      -> op_SHL_Vx(m, opcode)
          [] arm = "SNE_Vx_Vy"   -> op_SNE_Vx_Vy(m, opcode)
          [] arm = "LD_I_addr"   -> op_LD_I_addr(m, opcode)
          [] arm = "JP_V0_addr"  -> op_JP_V0_addr(m, opcode)
          [] arm = "RND_Vx_byte" -> op_RND_Vx_byte(m, opcode, random)
          [] arm = "DRW_Vx_Vy_n" -> op_DRW_Vx_Vy_n(m, opcode, chk)
          [] arm = "SKP_Vx"      -> op_SKP_Vx(m, opcode)
          [] arm = "SKNP_Vx"     -> op_SKNP_Vx(m, opcode)
          [] arm = "LD_Vx_DT"    -> op_LD_Vx_DT(m, opcode)
          [] arm = "LD_Vx_K"     -> op_LD_Vx_K(m, opcode)
          [] arm = "LD_DT_Vx"    -> op_LD_DT_Vx(m, opcode)
          [] arm = "LD_ST_Vx"    -> op_LD_ST_Vx(m, opcode)
          [] arm = "ADD_I_Vx"    -> op_ADD_I_Vx(m, opcode, chk)
          [] arm = "LD_F_Vx"     -> op_LD_F_Vx(m, opcode)
          [] arm = "LD_B_Vx"     -> op_LD_B_Vx(m, opcode)
          [] arm = "LD_I_Vx"     -> op_LD_I_Vx(m, opcode)
          [] arm = "LD_Vx_I"     -> op_LD_Vx_I(m, opcode)
          [] OTHER               -> op_unknown(m, opcode)

\* Cpu::execute_cycle: fetch (read_word panics past the end of memory),
\* self.pc += 2, process_opcode
execute_cycle(m, random, chk) ==
    IF m.pc + 1 >= MEMORY_SIZE THEN Panic(m, "index_out_of_bounds")
    ELSE process_opcode([m EXCEPT !.pc = m.pc + 2],
                        read_word(m.memory, m.pc), random, chk)

----------------------------------------------------------------------------
(* chip8.rs: Chip8Machine::run builds the memory image: the game at        *)
(* cpu.pc (0x200 after reset), then the font over the first 80 bytes.  The *)
(* copy is memory[pc + i] = game[i] on a 4096-byte array: a game that      *)
(* reaches past its end panics there, before the font and before load_rom, *)
(* and the Ram keeps the zeros of Ram::new.                                *)

LoadImage(game) ==
    LET fits == PROGRAM_START + Len(game) <= MEMORY_SIZE
        byte(a) == IF a < FONT_SIZE THEN FONT[a + 1]
                   ELSE IF a >= PROGRAM_START /\ a < PROGRAM_START + Len(game)
                        THEN game[a - PROGRAM_START + 1]
                        ELSE 0
    IN  IF fits
        THEN [ok |-> TRUE,
              memory |-> [a \in {b \in 0..(MEMORY_SIZE - 1) : byte(b) # 0}
                             |-> byte(a)]]
        ELSE [ok |-> FALSE, memory |-> [a \in {} |-> 0]]

----------------------------------------------------------------------------
(* The games (ROMs) the model runs.                                        *)

\* the two bytes of an opcode, high byte first
Ins(opcode) == <<opcode \div 256, opcode % 256>>

RECURSIVE Assemble(_)
Assemble(ops) == IF ops = <<>> THEN <<>>
                 ELSE Ins(Head(ops)) \o Assemble(Tail(ops))

\* LD V0, 0x0A; LD V1, 0x05; ADD V0, V1; 0x0000
RomScenario == Assemble(<<\h600A, \h6105, \h8014, \h0000>>)

\* operand values and register indices of the arithmetic games
Operands == {0, 1, 5, 10, 200, 255}
RegsX == {1, 15}
RegsY == {2, 15}

\* LD Vx, a; LD Vy, b; then one instruction of the 5, 8 or 9 family on x, y
RegRegOps == {\h8000 + n : n \in 0..15} \cup {\h5000, \h5001, \h9000, \h9001}
RomsRegReg ==
    {Assemble(<<\h6000 + x * 256 + a, \h6000 + y * 256 + b,
                op + x * 256 + y * 16>>) :
        x \in RegsX, y \in RegsY, a \in Operands, b \in Operands,
        op \in RegRegOps}

\* LD Vx, a; then 3xkk, 4xkk or 7xkk
RegImmOps == {\h3000, \h4000, \h7000}
RomsRegImm ==
    {Assemble(<<\h6000 + x * 256 + a, op + x * 256 + kk>>) :
        x \in RegsX, a \in Operands, kk \in Operands, op \in RegImmOps}

\* one instruction, from the edges of the ranges process_opcode matches
EdgeOpcodes ==
    {\h0000, \h00DF, \h00E0, \h00E1, \h00ED, \h00EE, \h00EF, \h0FFF,
     \h1FFE, \h1FFF, \h5001, \h500F, \h8008, \h800D, \h800F,
     \h8FF0, \h8FF1, \h8FF2, \h8FF3, \h8FF4, \h8FF5, \h8FF6, \h8FF7,
     \h8FF8, \h8FFD, \h8FFE, \h8FFF, \h9001, \h9FF0, \h9FF1, \h9FFF,
     \hA123, \hB300, \hC003,
     \hE000, \hE09D, \hE09E, \hE19E, \hE0A1, \hE1A1, \hEF9E, \hEF9F,
     \hEFA1, \hEFA2, \hEFFF,
     \hF000, \hF006, \hF007, \hF00A, \hF10A, \hF015, \hF018, \hF01E,
     \hF029, \hF033, \hF055, \hF065, \hFF07,
     \hFF08, \hFF0A, \hFF0B, \hFF15, \hFF16, \hFF18, \hFF19, \hFF1E,
     \hFF1F, \hFF29, \hFF2A, \hFF33, \hFF34, \hFF55, \hFF56, \hFF65,
     \hFF66, \hFFFF}
RomsEdge == {Assemble(<<op>>) : op \in EdgeOpcodes}

\* n CALLs in a row, the k-th calling the instruction after itself, then
\* a RET at the address the last one calls
CallChain(n) ==
    Assemble([k \in 1..(n + 1) |->
                 IF k <= n THEN \h2000 + PROGRAM_START + 2 * k ELSE \h00EE])
RomsCall ==
    {CallChain(n) : n \in 1..MaxCallChain}
    \cup {Assemble(<<\h2206, \h6001, \h0000, \h220A, \h00EE, \h00EE>>),
          Assemble(<<\h00EE>>)}

\* LD V0, 0x0A; LD V1, 0x05; LD I, glyph; DRW Vx, Vy, n (twice); CLS
RomsDraw ==
    {Assemble(<<\h600A, \h6105, \hA000 + g * 5, \hD000 + xy * 16 + n,
                \hD000 + xy * 16 + n, \h00E0>>) :
        g \in {0, 1}, xy \in {\h01, \h23}, n \in {1, 5}}

\* LD Vx, 157; LD I, 0x300; Fx33, for x = 0 and x = F
RomsBcd ==
    {Assemble(<<\h609D, \hA300, \hF033>>),
     Assemble(<<\h6F9D, \hA300, \hFF33>>)}

\* JP 0x204 over one instruction; LD V0, 0xFF then JP V0, 0xFFF
RomsJump ==
    {Assemble(<<\h1204, \h6011, \h6022, \h6033>>),
     Assemble(<<\h60FF, \hBFFF>>)}

\* LD Vx, 3; Fx29, for x = 0 and x = F
RomsFont ==
    {Assemble(<<\h6003, \hF029>>), Assemble(<<\h6F03, \hFF29>>)}

\* LD Vx, 5; Ex9E or ExA1; two more instructions, for x = 1 and x = F
RomsKeys ==
    {Assemble(<<\h6005 + x * 256, op + x * 256, \h6011, \h6022>>) :
        x \in {1, 15}, op \in {\hE09E, \hE0A1}}

\* Fx0A then LD V0, 0x11, for x = 1 and x = F
RomsWait ==
    {Assemble(<<\hF10A, \h6011>>), Assemble(<<\hFF0A, \h6011>>)}

\* RND V0, 0xFF
RomsRandom == {Assemble(<<\hC0FF>>)}

\* a game one byte longer than the memory above 0x200 holds
RomOversize ==
    [k \in 1..(MEMORY_SIZE - PROGRAM_START + 1) |-> 1 + ((k - 1) % 7)]

Roms == {RomScenario} \cup RomsRegReg \cup RomsRegImm \cup RomsEdge
        \cup RomsCall \cup RomsDraw \cup RomsBcd \cup RomsJump
        \cup RomsFont \cup RomsKeys \cup RomsWait \cup RomsRandom
        \cup {RomOversize}

\* the keys the external input source presses and releases
KeyInputs == {5}

----------------------------------------------------------------------------
(* The state machine.                                                      *)

\* The buffer at 0xa0000 before the first cycle.  Nothing writes it before
\* then (Display::new stores the colour only; WRITER only takes the
\* address), so it holds whatever the memory held: every byte 0, or stale
\* bytes.  StaleBuffer has a lit cell inside logical pixel (0, 0), a cell
\* of another value inside logical pixel (0, 1), the whole block of
\* logical pixel (63, 31) lit, and a lit cell in row 160, below the rows of
\* the logical grid.
ZeroBuffer == [c \in {} |-> 0]
StaleBuffer ==
    [c \in PixelCells(63, 31) \cup {<<2, 2>>, <<2, 7>>, <<0, 160>>} |->
        IF c = <<2, 7>> THEN 7 ELSE 15]
InitialBuffers == {ZeroBuffer, StaleBuffer}

\* Chip8Machine::new and Cpu::reset: the registers, an all-0 Ram, no key
\* down, the buffer as found; mem, run_status and run_fault are what run
\* has made of them when the first cycle starts
Constructed(mem, buf, run_status, run_fault) ==
    /\ memory = mem
    /\ i = 0
    /\ pc = PROGRAM_START
    /\ v = [k \in 0..15 |-> 0]
    /\ stack = [k \in 0..(STACK_SIZE - 1) |-> 0]
    /\ sp = 0
    /\ dt = 0
    /\ st = 0
    /\ vga = buf
    /\ keys = {}
    /\ status = run_status
    /\ fault = run_fault
    /\ wait_x = 0
    /\ overflow_checks = "unobserved"
    /\ cycles = 0
    /\ lastop = -1
    /\ calls = <<>>
    /\ dlog = <<>>
    /\ key_events = 0

\* Chip8Machine::run up to its loop: the image loaded into the Ram, or the
\* panic of the copy loop, which leaves the Ram all 0
InitMachine(game, buf) ==
    LET image == LoadImage(game)
    IN  IF image.ok
        THEN Constructed(image.memory, buf, "running", "none")
        ELSE Constructed(image.memory, buf, "panicked", "index_out_of_bounds")

\* the games started on each buffer: every game on the zeroed one, the
\* games that draw on the stale one too
Starts == (Roms \X {ZeroBuffer}) \cup (RomsDraw \X InitialBuffers)

Init == \E start \in Starts : InitMachine(start[1], start[2])

\* the machine after a step, written back to the variables
Commit(m) ==
    /\ memory' = m.memory
    /\ i' = m.i
    /\ pc' = m.pc
    /\ v' = m.v
    /\ stack' = m.stack
    /\ sp' = m.sp
    /\ dt' = m.dt
    /\ st' = m.st
    /\ vga' = m.display.buf
    /\ dlog' = m.display.log
    /\ keys' = m.keys
    /\ status' = m.status
    /\ fault' = m.fault
    /\ wait_x' = m.wait_x
    /\ overflow_checks' = m.overflow_checks

\* the build's overflow checks: either way until an overflow has shown it
OverflowChoices ==
    IF overflow_checks = "unobserved" THEN {TRUE, FALSE}
    ELSE {overflow_checks = "on"}

\* rand::thread_rng().gen_range(0, 255): the upper bound is exclusive
RandomChoices(arm) == IF arm = "RND_Vx_byte" THEN 0..254 ELSE {0}

\* the 2nnn calls outstanding after a cycle that leaves the machine m
CallsAfter(arm, m) ==
    IF m.status = "panicked" THEN calls
    ELSE IF arm = "CALL" THEN Append(calls, [p |-> pc, sp |-> sp])
    ELSE IF arm = "RET" /\ calls # <<>>
         THEN SubSeq(calls, 1, Len(calls) - 1)
    ELSE calls

\* one call of execute_cycle whose opcode the arm `arm` takes
Cycle(arm) ==
    /\ status = "running"
    /\ cycles < MaxCycles
    /\ pc + 1 < MEMORY_SIZE
    /\ Decode(read_word(memory, pc)) = arm
    /\ \E random \in RandomChoices(arm), chk \in OverflowChoices :
          LET m == execute_cycle(Machine, random, chk)
          IN  /\ Commit(m)
              /\ calls' = CallsAfter(arm, m)
    /\ cycles' = cycles + 1
    /\ lastop' = read_word(memory, pc)
    /\ UNCHANGED key_events

\* one call of execute_cycle that panics in read_word
Cycle_fetch_fault ==
    /\ status = "running"
    /\ cycles < MaxCycles
    /\ pc + 1 >= MEMORY_SIZE
    /\ Commit(execute_cycle(Machine, 0, FALSE))
    /\ cycles' = cycles + 1
    /\ UNCHANGED <<lastop, calls, key_events>>

Cycle_CLS == Cycle("CLS")
Cycle_RET == Cycle("RET")
Cycle_JP == Cycle("JP")
Cycle_CALL == Cycle("CALL")
Cycle_SE_Vx_byte == Cycle("SE_Vx_byte")
Cycle_SNE_Vx_byte == Cycle("SNE_Vx_byte")
Cycle_SE_Vx_Vy == Cycle("SE_Vx_Vy")
Cycle_LD_Vx_byte == Cycle("LD_Vx_byte")
Cycle_ADD_Vx_byte == Cycle("ADD_Vx_byte")
Cycle_LD_Vx_Vy == Cycle("LD_Vx_Vy")
Cycle_OR_Vx_Vy == Cycle("OR_Vx_Vy")
Cycle_AND_Vx_Vy == Cycle("AND_Vx_Vy")
Cycle_XOR_Vx_Vy == Cycle("XOR_Vx_Vy")
Cycle_ADD_Vx_Vy == Cycle("ADD_Vx_Vy")
Cycle_SUB_Vx_Vy == Cycle("SUB_Vx_Vy")
Cycle_SHR_Vx == Cycle("SHR_Vx")
Cycle_SUBN_Vx_Vy == Cycle("SUBN_Vx_Vy")
Cycle_SHL_Vx == Cycle("SHL_Vx")
Cycle_SNE_Vx_Vy == Cycle("SNE_Vx_Vy")
Cycle_LD_I_addr == Cycle("LD_I_addr")
Cycle_JP_V0_addr == Cycle("JP_V0_addr")
Cycle_RND_Vx_byte == Cycle("RND_Vx_byte")
Cycle_DRW_Vx_Vy_n == Cycle("DRW_Vx_Vy_n")
Cycle_SKP_Vx == Cycle("SKP_Vx")
Cycle_SKNP_Vx == Cycle("SKNP_Vx")
Cycle_LD_Vx_DT == Cycle("LD_Vx_DT")
Cycle_LD_Vx_K == Cycle("LD_Vx_K")
Cycle_LD_DT_Vx == Cycle("LD_DT_Vx")
Cycle_LD_ST_Vx == Cycle("LD_ST_Vx")
Cycle_ADD_I_Vx == Cycle("ADD_I_Vx")
Cycle_LD_F_Vx == Cycle("LD_F_Vx")
Cycle_LD_B_Vx == Cycle("LD_B_Vx")
Cycle_LD_I_Vx == Cycle("LD_I_Vx")
Cycle_LD_Vx_I == Cycle("LD_Vx_I")
Cycle_unknown == Cycle("unknown")

\* the input source presses a key; a cycle waiting in wait_key gets it
KeyPress ==
    /\ status # "panicked"
    /\ key_events < MaxKeyEvents
    /\ \E key \in KeyInputs \ keys :
          /\ keys' = keys \cup {key}
          /\ IF status = "awaiting_key"
             THEN v' = [v EXCEPT ![wait_x] = key] /\ status' = "running"
             ELSE UNCHANGED <<v, status>>
    /\ key_events' = key_events + 1
    /\ UNCHANGED <<memory, i, pc, stack, sp, dt, st, vga, fault, wait_x,
                   overflow_checks, cycles, lastop, calls, dlog>>

\* the input source releases a key
KeyRelease ==
    /\ status # "panicked"
    /\ key_events < MaxKeyEvents
    /\ \E key \in keys : keys' = keys \ {key}
    /\ key_events' = key_events + 1
    /\ UNCHANGED <<memory, i, pc, v, stack, sp, dt, st, vga, status, fault,
                   wait_x, overflow_checks, cycles, lastop, calls, dlog>>

Next ==
    \/ Cycle_CLS
    \/ Cycle_RET
    \/ Cycle_JP
    \/ Cycle_CALL
    \/ Cycle_SE_Vx_byte
    \/ Cycle_SNE_Vx_byte
    \/ Cycle_SE_Vx_Vy
    \/ Cycle_LD_Vx_byte
    \/ Cycle_ADD_Vx_byte
    \/ Cycle_LD_Vx_Vy
    \/ Cycle_OR_Vx_Vy
    \/ Cycle_AND_Vx_Vy
    \/ Cycle_XOR_Vx_Vy
    \/ Cycle_ADD_Vx_Vy
    \/ Cycle_SUB_Vx_Vy
    \/ Cycle_SHR_Vx
    \/ Cycle_SUBN_Vx_Vy
    \/ Cycle_SHL_Vx
    \/ Cycle_SNE_Vx_Vy
    \/ Cycle_LD_I_addr
    \/ Cycle_JP_V0_addr
    \/ Cycle_RND_Vx_byte
    \/ Cycle_DRW_Vx_Vy_n
    \/ Cycle_SKP_Vx
    \/ Cycle_SKNP_Vx
    \/ Cycle_LD_Vx_DT
    \/ Cycle_LD_Vx_K
    \/ Cycle_LD_DT_Vx
    \/ Cycle_LD_ST_Vx
    \/ Cycle_ADD_I_Vx
    \/ Cycle_LD_F_Vx
    \/ Cycle_LD_B_Vx
    \/ Cycle_LD_I_Vx
    \/ Cycle_LD_Vx_I
    \/ Cycle_unknown
    \/ Cycle_fetch_fault
    \/ KeyPress
    \/ KeyRelease

Spec == Init /\ [][Next]_vars

----------------------------------------------------------------------------
(* The Display alone: clear and draw called directly on the Display of a   *)
(* freshly constructed machine, with positions and sprites drawn from the  *)
(* sets below.                                                             *)

DrawPositions == {<<0, 0>>, <<63, 31>>}

\* one pixel; a full row; two rows; a row with no bit set
DrawSprites == {<<128>>, <<255>>, <<160, 64>>, <<0>>}

\* Chip8Machine::new: Ram::new is all 0, nothing is loaded yet
InitDisplay ==
    \E buf \in InitialBuffers :
        Constructed([a \in {} |-> 0], buf, "running", "none")

\* what a Display call leaves: the buffer and the history; nothing else
CommitDisplay(d) ==
    /\ vga' = d.buf
    /\ dlog' = d.log
    /\ status' = IF d.ok THEN status ELSE "panicked"
    /\ fault' = IF d.ok THEN fault ELSE "index_out_of_bounds"
    /\ UNCHANGED <<memory, i, pc, v, stack, sp, dt, st, keys, wait_x,
                   overflow_checks, cycles, lastop, calls, key_events>>

CallClear ==
    /\ status = "running"
    /\ Len(dlog) < MaxDisplayOps
    /\ CommitDisplay(Display_clear(Machine.display))

CallDraw ==
    /\ status = "running"
    /\ Len(dlog) < MaxDisplayOps
    /\ \E pos \in DrawPositions, sprite \in DrawSprites :
          CommitDisplay(Display_draw(Machine.display, pos[1], pos[2], sprite))

NextDisplay == CallClear \/ CallDraw

SpecDisplay == InitDisplay /\ [][NextDisplay]_vars

----------------------------------------------------------------------------
(* What the claims are stated with.                                        *)

\* the step is a call of execute_cycle that fetches an opcode
CycleStep ==
    /\ status = "running"
    /\ pc + 1 < MEMORY_SIZE
    /\ cycles' = cycles + 1

\* the opcode the next cycle fetches
Fetched == read_word(memory, pc)

\* the opcode's high nibble
OpHi(opcode) == opcode \div 4096

\* the opcode matches a pattern of the specification's instruction catalog
InCatalog(opcode) ==
    \/ opcode \in {\h00E0, \h00EE}
    \/ OpHi(opcode) \in {1, 2, 3, 4, 6, 7, 10, 11, 12, 13}
    \/ OpHi(opcode) \in {5, 9} /\ OpN(opcode) = 0
    \/ OpHi(opcode) = 8 /\ OpN(opcode) \in (0..7) \cup {14}
    \/ OpHi(opcode) = 14 /\ OpKK(opcode) \in {\h9E, \hA1}
    \/ OpHi(opcode) = 15
       /\ OpKK(opcode) \in {\h07, \h0A, \h15, \h18, \h1E, \h29, \h33, \h55, \h65}

\* the memory image of the end-to-end scenario's game
ScenarioImage == LoadImage(RomScenario).memory

----------------------------------------------------------------------------
(* The claims.                                                             *)

\* C1 (as claimed): with the game 60 0A 61 05 80 14 00 00 loaded, the first
\* three cycles do not fault, V0 = 0x0F and VF = 0 after the third, and the
\* fourth cycle faults as an unknown opcode.
C1_EndToEndScenario ==
    memory = ScenarioImage =>
        /\ cycles <= 3 => status = "running"
        /\ cycles = 3 => v[0] = 15 /\ v[15] = 0
        /\ cycles = 4 => status = "panicked" /\ fault = "unknown_opcode"

\* C2 (as claimed): a cycle that fetches an opcode outside the instruction
\* catalog ends in the unknown-opcode panic.
C2_UncataloguedOpcodeIsFatal ==
    [][(CycleStep /\ ~InCatalog(Fetched))
          => (status' = "panicked" /\ fault' = "unknown_opcode")]_vars

\* C3 (as claimed): 7xkk leaves Vx = (Vx + kk) mod 256; 8xy4 leaves
\* Vx = (Vx + Vy) mod 256 and VF = 1 if the sum exceeds 255, else 0.
\* (Stated for x and y other than F, so that no operand is the flag.)
C3_AddWrapsAndCarries ==
    [][CycleStep =>
          LET x == OpX(Fetched)
              y == OpY(Fetched)
          IN  /\ OpHi(Fetched) = 7 =>
                    v'[x] = (v[x] + OpKK(Fetched)) % 256
              /\ (OpHi(Fetched) = 8 /\ OpN(Fetched) = 4 /\ x # 15 /\ y # 15) =>
                    /\ v'[x] = (v[x] + v[y]) % 256
                    /\ v'[15] = IF v[x] + v[y] > 255 THEN 1 ELSE 0]_vars

\* C4 (as claimed): 8xy5 (Vx - Vy) and 8xy7 (Vy - Vx) store the difference
\* mod 256 in Vx and set VF = 1 exactly when minuend >= subtrahend.
\* (Stated for x and y other than F, so that no operand is the flag.)
C4_SubWrapsAndNoBorrow ==
    [][(CycleStep /\ OpHi(Fetched) = 8 /\ OpN(Fetched) \in {5, 7}
          /\ OpX(Fetched) # 15 /\ OpY(Fetched) # 15) =>
          LET x == OpX(Fetched)
              y == OpY(Fetched)
              minuend == IF OpN(Fetched) = 5 THEN v[x] ELSE v[y]
              subtrahend == IF OpN(Fetched) = 5 THEN v[y] ELSE v[x]
          IN  /\ v'[x] = (minuend - subtrahend + 256) % 256
              /\ v'[15] = IF minuend >= subtrahend THEN 1 ELSE 0]_vars

\* C5: a 00EE executed while a 2nnn fetched at p is outstanding (every
\* later call already returned from) does not fault, and leaves PC = p + 2
\* and SP as it was before that 2nnn.
C5_CallReturnRoundTrip ==
    [][(CycleStep /\ Fetched = \h00EE /\ calls # <<>>) =>
          /\ status' = "running"
          /\ pc' = calls[Len(calls)].p + 2
          /\ sp' = calls[Len(calls)].sp]_vars

\* C5 witness: the inner of two nested calls has returned to the
\* instruction after it, the outer one is still outstanding.
C5_Witness ==
    /\ lastop = \h00EE
    /\ status = "running"
    /\ Len(calls) = 1
    /\ sp = 1
    /\ pc = stack[2]
    /\ pc = PROGRAM_START + 8

\* C6 (as claimed): a 2nnn executed with fewer than 16 calls outstanding
\* does not fault, so 16 consecutive 2nnn from reset all succeed.
C6_SixteenNestedCalls ==
    [][(CycleStep /\ OpHi(Fetched) = 2 /\ Len(calls) < 16)
          => status' = "running"]_vars

\* C7, C8, C11, C12 and C23 are about the Display alone (SpecDisplay).

\* logical pixel p = <<x, y>> of the buffer is on: its cells are not Black
PixelOn(buf, p) ==
    \E cell \in PixelCells(p[1], p[2]) : read_byte(buf, cell[1], cell[2]) # Black

\* the logical pixels of the 64 x 32 grid that are on in a buffer
PixelsOn(buf) ==
    {p \in {<<c[1] \div MULTIPLIER, c[2] \div MULTIPLIER>> : c \in DOMAIN buf} :
        p[1] < WIDTH /\ p[2] < HEIGHT /\ PixelOn(buf, p)}

\* the set bits of a sprite, as <<row, column>> with rows counted from 0
SetBits(sprite) ==
    {bit \in (0..(Len(sprite) - 1)) \X (0..7) :
        SpriteBit(sprite[bit[1] + 1], bit[2]) = 1}

\* the logical pixel a bit of a sprite drawn at (x, y) falls on
PixelOf(x, y, bit) == <<(x + bit[2]) % WIDTH, (y + bit[1]) % HEIGHT>>

\* the last Display call and the one before it
LastCall == dlog[Len(dlog)]
CallBefore == dlog[Len(dlog) - 1]

\* the last two Display calls were the same draw
DrawnTwice ==
    /\ Len(dlog) >= 2
    /\ LastCall.op = "draw" /\ CallBefore.op = "draw"
    /\ LastCall.x = CallBefore.x /\ LastCall.y = CallBefore.y
    /\ LastCall.sprite = CallBefore.sprite

\* C7 (as claimed): the same draw made twice in a row restores the pixels
\* that held before the first, and the second returns true whenever the
\* sprite has a set bit.
C7_SecondDrawAlwaysCollides ==
    DrawnTwice =>
        /\ vga = CallBefore.before
        /\ SetBits(LastCall.sprite) # {} => LastCall.ret

\* C7 (amended): the same draw made twice in a row restores the pixels that
\* held before the first, and the second returns true whenever a set bit
\* of the sprite falls on a pixel that was off before the first draw.
C7_DrawTwiceRestores ==
    DrawnTwice =>
        /\ vga = CallBefore.before
        /\ (\E bit \in SetBits(LastCall.sprite) :
               ~PixelOn(CallBefore.before,
                        PixelOf(LastCall.x, LastCall.y, bit)))
           => LastCall.ret

\* C7 witness: a sprite drawn twice over a display that had some of the
\* sprite's pixels on and some off before the first draw.
C7_Witness ==
    /\ DrawnTwice
    /\ \E bit \in SetBits(LastCall.sprite) :
          ~PixelOn(CallBefore.before, PixelOf(LastCall.x, LastCall.y, bit))
    /\ \E bit \in SetBits(LastCall.sprite) :
          PixelOn(CallBefore.before, PixelOf(LastCall.x, LastCall.y, bit))
    /\ LastCall.ret

\* C8 (as claimed): a draw of a sprite of at most 32 rows returns true
\* exactly when a pixel under one of its set bits was on before the draw
\* and is off after it; on a display with every pixel off it returns false.
C8_CollisionIffPixelTurnedOff ==
    (Len(dlog) >= 1 /\ LastCall.op = "draw" /\ Len(LastCall.sprite) <= HEIGHT)
    => /\ LastCall.ret <=>
             \E bit \in SetBits(LastCall.sprite) :
                 LET p == PixelOf(LastCall.x, LastCall.y, bit)
                 IN  PixelOn(LastCall.before, p) /\ ~PixelOn(vga, p)
       /\ PixelsOn(LastCall.before) = {} => ~LastCall.ret

\* the last cycle executed a Dxyn that did not fault
AfterDraw ==
    /\ lastop \in \hD000..\hDFFF
    /\ status = "running"
    /\ dlog # <<>>
    /\ LastCall.op = "draw"

\* C9 (as claimed): after Dxyn, VF = 1 if the draw returned a collision and
\* VF = 0 otherwise.
C9_DrawSetsVF ==
    AfterDraw => v[15] = IF LastCall.ret THEN 1 ELSE 0

\* C10 (as claimed): Dxyn draws memory[I .. I+n-1] with its top-left corner
\* at (Vx, Vy): the display after it is the display before it with that
\* sprite XOR-ed in at the values of the two registers.
C10_DrawAtRegisterValues ==
    AfterDraw =>
        LET n == OpN(lastop)
            bytes == [k \in 1..n |-> MemGet(memory, i + k - 1)]
        IN  /\ LastCall.sprite = bytes
            /\ vga = draw_loop(LastCall.before, FALSE, TRUE,
                               v[OpX(lastop)], v[OpY(lastop)], bytes, 0).buf

\* the cells of the buffer whose byte differs between two buffers
ChangedCells(before, after) ==
    {c \in DOMAIN before \cup DOMAIN after :
        read_byte(before, c[1], c[2]) # read_byte(after, c[1], c[2])}

\* the logical pixels that are on in one of two buffers and off in the other
ToggledPixels(before, after) ==
    {p \in {<<c[1] \div MULTIPLIER, c[2] \div MULTIPLIER>> :
               c \in ChangedCells(before, after)} :
        PixelOn(before, p) # PixelOn(after, p)}

\* C11 (as claimed): a draw at (x, y) toggles, for each set bit at row r and
\* column c of the sprite (column 0 the most significant bit), exactly the
\* logical pixel ((x + c) mod 64, (y + r) mod 32), and no other pixel.
C11_DrawTogglesWrappedPixels ==
    (Len(dlog) >= 1 /\ LastCall.op = "draw" /\ Len(LastCall.sprite) <= HEIGHT)
    => ToggledPixels(LastCall.before, vga) =
          {<<(LastCall.x + b[2]) % 64, (LastCall.y + b[1]) % 32>> :
              b \in {d \in (0..(Len(LastCall.sprite) - 1)) \X (0..7) :
                       (LastCall.sprite[d[1] + 1] \div (2 ^ (7 - d[2]))) % 2
                           = 1}}

\* C12: after a clear every logical pixel is off, whatever draws and clears
\* came before it (so clear, draws, clear ends all-off, and a clear after a
\* clear changes nothing).
C12_ClearTurnsEveryPixelOff ==
    (Len(dlog) >= 1 /\ LastCall.op = "clear")
    => /\ PixelsOn(vga) = {}
       /\ (Len(dlog) >= 2 /\ CallBefore.op = "clear") => vga = LastCall.before

\* C12 witness: clear, a draw that turned pixels on, clear.
C12_Witness ==
    /\ Len(dlog) = 3
    /\ dlog[1].op = "clear"
    /\ dlog[2].op = "draw"
    /\ LastCall.op = "clear"
    /\ PixelsOn(LastCall.before) # {}
    /\ PixelsOn(vga) = {}

\* C13 (as claimed): Fx33 writes the hundreds, tens and ones digits of Vx
\* to memory[I], memory[I+1], memory[I+2] and changes no other byte.
C13_BcdOfVx ==
    [][(CycleStep /\ OpHi(Fetched) = 15 /\ OpKK(Fetched) = \h33
          /\ i + 2 < MEMORY_SIZE) =>
          LET num == v[OpX(Fetched)]
          IN  /\ status' = "running"
              /\ MemGet(memory', i) = num \div 100
              /\ MemGet(memory', i + 1) = (num \div 10) % 10
              /\ MemGet(memory', i + 2) = num % 10
              /\ \A a \in (DOMAIN memory \cup DOMAIN memory') \ {i, i + 1, i + 2} :
                    MemGet(memory', a) = MemGet(memory, a)]_vars

\* C14: a cycle that executes 1nnn leaves PC = nnn, and the next cycle
\* fetches its opcode from memory[nnn] and memory[nnn + 1].
C14_JumpTargetIsFetched ==
    [][CycleStep =>
          /\ OpHi(Fetched) = 1 =>
                (status' = "running" /\ pc' = OpNNN(Fetched))
          /\ (lastop \in \h1000..\h1FFF) =>
                lastop' = MemGet(memory, OpNNN(lastop)) * 256
                          + MemGet(memory, OpNNN(lastop) + 1)]_vars

\* C14 witness: JP 0x204 at 0x200, then the instruction at 0x204 (LD V0,
\* 0x22) has executed, not the one at 0x206.
C14_Witness ==
    /\ MemGet(memory, PROGRAM_START) = \h12
    /\ MemGet(memory, PROGRAM_START + 1) = \h04
    /\ cycles = 2
    /\ lastop = \h6022
    /\ v[0] = \h22
    /\ pc = \h206

\* C15 (as claimed): Fx29 sets I to the address of the font glyph of digit
\* Vx, which is Vx * 5 with the font at address 0.
C15_FontGlyphAddress ==
    [][(CycleStep /\ OpHi(Fetched) = 15 /\ OpKK(Fetched) = \h29) =>
          (status' = "running" /\ i' = v[OpX(Fetched)] * 5)]_vars

\* C16 (as claimed): Ex9E advances PC by an extra 2 exactly when the key
\* whose value is Vx is pressed, ExA1 exactly when that key is not pressed.
C16_KeySkips ==
    [][(CycleStep /\ OpHi(Fetched) = 14 /\ OpKK(Fetched) \in {\h9E, \hA1}) =>
          LET down == v[OpX(Fetched)] \in keys
              skip == IF OpKK(Fetched) = \h9E THEN down ELSE ~down
          IN  /\ status' = "running"
              /\ pc' = pc + 2 + (IF skip THEN 2 ELSE 0)]_vars

\* C17 (as claimed): Fx0A puts the machine in the awaiting-key state; while
\* it waits no instruction executes and no register, memory byte or pixel
\* changes; a key press stores the key in Vx and execution goes on with the
\* instruction after the Fx0A.
C17_WaitsForKey ==
    [][/\ (CycleStep /\ OpHi(Fetched) = 15 /\ OpKK(Fetched) = \h0A) =>
             /\ status' = "awaiting_key"
             /\ wait_x' = OpX(Fetched)
             /\ pc' = pc + 2
             /\ UNCHANGED <<v, memory, vga, i, stack, sp, dt, st>>
       /\ (status = "awaiting_key" /\ status' = "awaiting_key") =>
             UNCHANGED <<v, memory, vga, i, pc, stack, sp, dt, st, cycles>>
       /\ (status = "awaiting_key" /\ status' # "awaiting_key") =>
             /\ status' = "running"
             /\ \E key \in keys' \ keys : v' = [v EXCEPT ![wait_x] = key]
             /\ UNCHANGED <<memory, vga, i, pc, stack, sp, dt, st, cycles>>]_vars

\* C18 (as claimed): 00EE executed with SP = 0 (no call outstanding) is
\* fatal: the machine is aborted after it.
C18_ReturnOnEmptyStackIsFatal ==
    [][(CycleStep /\ Fetched = \h00EE /\ sp = 0 /\ calls = <<>>)
          => status' = "panicked"]_vars

\* C19 (as claimed): Cxkk leaves Vx = r AND kk for a random byte r that can
\* be any of 0..255: for each r, some outcome of the cycle's random draw
\* leaves Vx = r AND kk; with kk = 0xFF that includes Vx = 0xFF.
C19_RandomByteCoversAllValues ==
    (status = "running" /\ pc + 1 < MEMORY_SIZE /\ OpHi(Fetched) = 12)
    => \A r \in 0..255 :
          \E random \in RandomChoices(Decode(Fetched)) :
              execute_cycle(Machine, random, FALSE).v[OpX(Fetched)]
                  = BitOp("and", r, OpKK(Fetched), 8)

\* C20 (as claimed): while the machine has not faulted, PC is a valid
\* two-byte fetch location: PC <= 4094.
C20_PcIsFetchLocation ==
    status # "panicked" => (pc >= 0 /\ pc <= 4094)

\* C21 (as claimed): while the machine has not faulted SP is in 0..15, and
\* the stack index 2nnn writes (SP + 1) and the one 00EE reads (SP) are
\* inside the 16-entry stack.
C21_StackPointerInRange ==
    [][/\ status' # "panicked" => sp' \in 0..15
       /\ (CycleStep /\ OpHi(Fetched) = 2) => (sp + 1) % 256 \in 0..15
       /\ (CycleStep /\ Fetched = \h00EE) => sp \in 0..15]_vars

\* an opcode with its register-index nibbles replaced: x and y in the 8 and
\* 9 families, x alone in the E and F families (whose low byte selects the
\* operation)
WithRegisters(opcode, x, y) ==
    IF OpHi(opcode) \in {8, 9}
    THEN OpHi(opcode) * 4096 + x * 256 + y * 16 + OpN(opcode)
    ELSE OpHi(opcode) * 4096 + x * 256 + OpKK(opcode)

\* the opcode belongs to one of the families 8xyN, 9xy0, Exkk, Fxkk
InRegisterFamily(opcode) ==
    \/ OpHi(opcode) \in {8, 14, 15}
    \/ OpHi(opcode) = 9 /\ OpN(opcode) = 0

\* C22 (as claimed): dispatch ignores the register-index bits: the
\* operation a cycle executed for an opcode of the 8xyN, 9xy0, Exkk or Fxkk
\* family is the one selected for the same opcode with any other register
\* indices.
C22_DispatchIgnoresRegisterBits ==
    (lastop # -1 /\ InRegisterFamily(lastop))
    => \A x \in 0..15, y \in 0..15 :
          Decode(WithRegisters(lastop, x, y)) = Decode(lastop)

\* the buffer after the first k Display calls
BufferAfter(k) == IF k = Len(dlog) THEN vga ELSE dlog[k + 1].before

\* the display has been cleared: at the start or after some call every
\* logical pixel was off
WasCleared == \E k \in 0..Len(dlog) : PixelsOn(BufferAfter(k)) = {}

\* C23: every buffer access of clear and draw is inside the 320 x 200
\* buffer (no call has faulted on an index, and every byte a call changed
\* lies at x in 0..319, y in 0..199), and once the display has been
\* cleared the 25 cells of the 5 x 5 block of each logical pixel hold the
\* same value after any sequence of clears and draws.
C23_AccessesInBufferBlocksUniform ==
    /\ status = "running"
    /\ fault = "none"
    /\ Len(dlog) >= 1 =>
          \A c \in ChangedCells(LastCall.before, vga) :
              c[1] \in 0..319 /\ c[2] \in 0..199
    /\ WasCleared =>
          \A c \in {d \in DOMAIN vga : d[2] \div 5 < 32} :
              \A a \in 0..4, b \in 0..4 :
                  read_byte(vga, (c[1] \div 5) * 5 + a, (c[2] \div 5) * 5 + b)
                      = vga[c]

\* C23 witness: a buffer that started with stale bytes in the blocks of
\* two logical pixels is cleared, and after two more calls, the last a
\* draw, the blocks of the logical pixels (63, 31) and (0, 0) are on, the
\* first ending at the cell (319, 159).
C23_Witness ==
    /\ Len(dlog) = 3
    /\ dlog[1].op = "clear"
    /\ PixelsOn(dlog[1].before) # {}
    /\ LastCall.op = "draw"
    /\ read_byte(vga, 319, 159) = White
    /\ read_byte(vga, 315, 155) = White
    /\ read_byte(vga, 0, 0) = White
    /\ read_byte(vga, 4, 4) = White

====
